---- MODULE Spec2Model ----
(***************************************************************************)
(* Model of the Lyra prompt optimizer (src/lyra/optimizer.py).             *)
(*                                                                         *)
(* Python strings are TLA+ strings (sequences of characters): Len, SubSeq  *)
(* and \o act on them character by character, so substring tests, splits,  *)
(* strips and the regular expressions of the source are computed on the    *)
(* characters, as the source computes them.                                *)
(***************************************************************************)
EXTENDS Integers, Sequences, FiniteSets, TLC

(***************************************************************************)
(* Characters and the str methods the source uses.                         *)
(***************************************************************************)
UpperLetters == "ABCDEFGHIJKLMNOPQRSTUVWXYZ"
LowerLetters == "abcdefghijklmnopqrstuvwxyz"
Digits == "0123456789"
Whitespace == {" ", "\n", "\t"}

Char(s, i) == SubSeq(s, i, i)

CharsOf(s) == {Char(s, i) : i \in 1..Len(s)}

UpperSet == CharsOf(UpperLetters)
LowerSet == CharsOf(LowerLetters)
DigitSet == CharsOf(Digits)

WordSet == UpperSet \cup LowerSet \cup DigitSet \cup {"_"}

\* \w of the re module on the characters used here.
IsWordChar(c) == c \in WordSet

\* str.isupper() of a one-character string.
IsUpperChar(c) == c \in UpperSet

LowerChar(c) ==
    IF c \in UpperSet
    THEN LET k == CHOOSE i \in 1..Len(UpperLetters) : Char(UpperLetters, i) = c
         IN  Char(LowerLetters, k)
    ELSE c

\* Lower-cases s[lo..hi], halving the range (the recursion stays shallow).
RECURSIVE LowerRange(_, _, _)
LowerRange(s, lo, hi) ==
    IF lo > hi THEN ""
    ELSE IF lo = hi THEN LowerChar(Char(s, lo))
    ELSE LET mid == (lo + hi) \div 2
         IN  LowerRange(s, lo, mid) \o LowerRange(s, mid + 1, hi)

\* str.lower()
Lower(s) ==
    IF \A i \in 1..Len(s) : Char(s, i) \notin UpperSet THEN s
    ELSE LowerRange(s, 1, Len(s))

\* s[i-1:].startswith(sub), for a 1-based position i.
StartsAt(s, sub, i) ==
    /\ i + Len(sub) - 1 <= Len(s)
    /\ SubSeq(s, i, i + Len(sub) - 1) = sub

\* str.startswith
StartsWith(s, sub) == StartsAt(s, sub, 1)

\* sub in s
Contains(s, sub) ==
    \E i \in 1..(Len(s) - Len(sub) + 1) : SubSeq(s, i, i + Len(sub) - 1) = sub

\* any(word in s for word in words), words a sequence of strings.
ContainsAny(s, words) == \E k \in 1..Len(words) : Contains(s, words[k])

Min(S) == CHOOSE x \in S : \A y \in S : x <= y

\* str.strip(chars), chars a set of characters.
StripChars(s, chars) ==
    LET keep == {i \in 1..Len(s) : Char(s, i) \notin chars}
    IN  IF keep = {} THEN ""
        ELSE SubSeq(s, Min(keep), CHOOSE x \in keep : \A y \in keep : y <= x)

\* str.strip()
Strip(s) == StripChars(s, Whitespace)

\* The first position at or after i that holds a character of chars, or
\* Len(s) + 1 when there is none.
FirstOf(s, chars, i) ==
    CHOOSE e \in i..(Len(s) + 1) :
        /\ e = Len(s) + 1 \/ Char(s, e) \in chars
        /\ \A k \in i..(e - 1) : Char(s, k) \notin chars

\* The pieces of str.split(sep) that start in lo..hi, in order: a piece starts
\* at position 1 and after every separator, and may be empty.
RECURSIVE PiecesIn(_, _, _, _)
PiecesIn(s, sep, lo, hi) ==
    IF lo > hi THEN <<>>
    ELSE IF lo = hi
         THEN IF lo = 1 \/ Char(s, lo - 1) = sep
              THEN <<SubSeq(s, lo, FirstOf(s, {sep}, lo) - 1)>>
              ELSE <<>>
    ELSE LET mid == (lo + hi) \div 2
         IN  PiecesIn(s, sep, lo, mid) \o PiecesIn(s, sep, mid + 1, hi)

\* str.split(sep) for a one-character separator: empty pieces are kept.
SplitOn(s, sep) == PiecesIn(s, sep, 1, Len(s) + 1)

\* The tokens of str.split() that start in lo..hi, in order.
RECURSIVE TokensIn(_, _, _)
TokensIn(s, lo, hi) ==
    IF lo > hi THEN <<>>
    ELSE IF lo = hi
         THEN IF /\ Char(s, lo) \notin Whitespace
                 /\ (lo = 1 \/ Char(s, lo - 1) \in Whitespace)
              THEN <<SubSeq(s, lo, FirstOf(s, Whitespace, lo) - 1)>>
              ELSE <<>>
    ELSE LET mid == (lo + hi) \div 2
         IN  TokensIn(s, lo, mid) \o TokensIn(s, mid + 1, hi)

\* Variant: str.split(' '), which keeps the empty strings between spaces.
SplitOnSpaces(s) == SplitOn(s, " ")

\* str.split(): the maximal runs of non-whitespace characters, in order.
Split(s) == TokensIn(s, 1, Len(s))

\* sep.join(parts)
RECURSIVE Join(_, _)
Join(sep, parts) ==
    IF parts = <<>> THEN ""
    ELSE IF Len(parts) = 1 THEN parts[1]
    ELSE parts[1] \o sep \o Join(sep, Tail(parts))

\* str.capitalize() of the requirement names (lower-case ASCII words).
Capitalize(s) ==
    IF s = "" THEN ""
    ELSE LET c == Char(s, 1)
             u == IF c \in LowerSet
                  THEN Char(UpperLetters,
                            CHOOSE i \in 1..Len(LowerLetters) : Char(LowerLetters, i) = c)
                  ELSE c
         IN  u \o Lower(SubSeq(s, 2, Len(s)))

\* \b of the re module at the gap before position i (1-based) of s.
WordBoundary(s, i) ==
    LET before == i > 1 /\ i - 1 <= Len(s) /\ IsWordChar(Char(s, i - 1))
        after  == i >= 1 /\ i <= Len(s) /\ IsWordChar(Char(s, i))
    IN  before # after

\* The positions where \b(w1|w2|...)\b matches in s.
WholeWordAt(s, words, i) ==
    /\ WordBoundary(s, i)
    /\ \E k \in 1..Len(words) :
          /\ StartsAt(s, words[k], i)
          /\ WordBoundary(s, i + Len(words[k]))

\* re.search(r'\b(w1|...)\b', s) is not None
HasWholeWord(s, words) == \E i \in 1..Len(s) : WholeWordAt(s, words, i)

(***************************************************************************)
(* 1. DECONSTRUCT                                                          *)
(***************************************************************************)
ActionPatterns ==
    << <<"write", "create", "generate", "make", "build", "develop", "design",
         "draft", "compose">>,
       <<"analyze", "review", "evaluate", "assess", "examine", "study">>,
       <<"explain", "describe", "summarize", "outline", "clarify">>,
       <<"help", "assist", "guide", "support">>,
       <<"improve", "optimize", "enhance", "refine", "fix">> >>

\* The last position of the line that holds position i ('.' matches no newline).
EndOfLine(s, i) ==
    LET nl == {j \in i..Len(s) : Char(s, j) = "\n"}
    IN  IF nl = {} THEN Len(s) ELSE Min(nl) - 1

\* re.search(r'\b(v1|v2|...)\b.*', s): the matched text in a one-element
\* sequence, or <<>> when there is no match.
SearchVerbClause(s, verbs) ==
    LET hits == {i \in 1..Len(s) : WholeWordAt(s, verbs, i)}
    IN  IF hits = {} THEN <<>>
        ELSE <<SubSeq(s, Min(hits), EndOfLine(s, Min(hits)))>>

RECURSIVE FirstPatternMatch(_, _)
FirstPatternMatch(s, k) ==
    IF k > Len(ActionPatterns) THEN <<>>
    ELSE LET m == SearchVerbClause(s, ActionPatterns[k])
         IN  IF m # <<>> THEN m ELSE FirstPatternMatch(s, k + 1)

_extract_intent(prompt) ==
    LET m == FirstPatternMatch(Lower(prompt), 1)
        sentences == SplitOn(prompt, ".")
    IN  IF m # <<>> THEN Strip(m[1])
        ELSE IF sentences # <<>> THEN Strip(sentences[1])
        ELSE SubSeq(prompt, 1, IF Len(prompt) < 100 THEN Len(prompt) ELSE 100)

EntityStopwords == {"the", "a", "an", "i"}

EntityKeywords ==
    <<"email", "report", "code", "essay", "article", "blog", "resume",
      "letter", "proposal", "presentation", "analysis", "summary",
      "review", "plan", "strategy", "design", "system">>

EntityStripChars == {".", ",", "!", "?", ";", ":"}

\* word[0] of an empty word raises IndexError.
EntitiesRaises(words) == \E k \in 1..Len(words) : words[k] = ""

\* The list entities before it is made a set: capitalized words, then keywords.
EntityCandidates(prompt, words) ==
    LET IsCap(w) == IsUpperChar(Char(w, 1)) /\ Lower(w) \notin EntityStopwords
        caps == SelectSeq(words, IsCap)
        low  == Lower(prompt)
        InPrompt(kw) == Contains(low, kw)
    IN  [k \in 1..Len(caps) |-> StripChars(caps[k], EntityStripChars)]
        \o SelectSeq(EntityKeywords, InPrompt)

\* The distinct elements of a list, by first occurrence.
RECURSIVE Distinct(_)
Distinct(seq) ==
    IF seq = <<>> THEN <<>>
    ELSE LET front == Distinct(SubSeq(seq, 1, Len(seq) - 1))
             last  == seq[Len(seq)]
         IN  IF \E k \in 1..Len(front) : front[k] = last THEN front
             ELSE Append(front, last)

\* list(set(entities)): the iteration order of a set of str is fixed by the
\* interpreter's string hashing, which is seeded per process.  The seed picks
\* one order of the distinct elements (a rotation of their insertion order).
SetToList(seq, seed) ==
    LET d == Distinct(seq)
        n == Len(d)
    IN  IF n = 0 THEN <<>>
        ELSE [k \in 1..n |-> d[((k - 1 + seed) % n) + 1]]

MaxEntities == 10

\* The list entities of _extract_entities when it reaches its return.
entity_list(prompt) ==
    LET words == Split(prompt)
    IN  IF EntitiesRaises(words) THEN <<>> ELSE EntityCandidates(prompt, words)

\* list(set(entities))[:10]
unique_entities(entities, seed) ==
    LET all == SetToList(entities, seed)
    IN  SubSeq(all, 1, IF Len(all) < MaxEntities THEN Len(all) ELSE MaxEntities)

_extract_entities(prompt, seed) == unique_entities(entity_list(prompt), seed)

ContextCues == <<"because", "for", "about", "regarding", "context">>

_assess_context(prompt) ==
    LET word_count == Len(Split(prompt))
        has_details == ContainsAny(Lower(prompt), ContextCues)
    IN  IF word_count > 50 /\ has_details THEN "High"
        ELSE IF word_count > 20 \/ has_details THEN "Medium"
        ELSE "Low"

LengthUnits == <<"words", "pages", "paragraphs", "sentences">>

\* Where (\d+)\s*(words|pages|paragraphs|sentences) ends when matched from
\* position i, or 0 when it does not match there.
LengthMatchEnd(s, i) ==
    IF Char(s, i) \notin DigitSet THEN 0
    ELSE LET nondigit == {j \in i..Len(s) : Char(s, j) \notin DigitSet}
             d == IF nondigit = {} THEN Len(s) + 1 ELSE Min(nondigit)
             nonspace == {j \in d..Len(s) : Char(s, j) \notin Whitespace}
             w == IF nonspace = {} THEN Len(s) + 1 ELSE Min(nonspace)
             units == {k \in 1..Len(LengthUnits) : StartsAt(s, LengthUnits[k], w)}
         IN  IF units = {} THEN 0 ELSE w + Len(LengthUnits[Min(units)]) - 1

SearchLength(s) ==
    LET hits == {i \in 1..Len(s) : LengthMatchEnd(s, i) > 0}
    IN  IF hits = {} THEN <<>>
        ELSE <<SubSeq(s, Min(hits), LengthMatchEnd(s, Min(hits)))>>

\* re.search(r'(w1|w2|...)', s): leftmost position, first alternative there.
SearchAlternatives(s, words) ==
    LET hits == {i \in 1..Len(s) : \E k \in 1..Len(words) : StartsAt(s, words[k], i)}
    IN  IF hits = {} THEN <<>>
        ELSE <<words[Min({k \in 1..Len(words) : StartsAt(s, words[k], Min(hits))})]>>

RequirementTypes == <<"length", "format", "tone", "audience", "style">>

RequirementWords ==
    [format   |-> <<"format", "formatted", "structure", "template">>,
     tone     |-> <<"tone", "formal", "casual", "professional", "friendly", "persuasive">>,
     audience |-> <<"audience", "for", "target", "readers">>,
     style    |-> <<"style", "writing style", "approach">>]

RequirementSearch(req_type, s) ==
    IF req_type = "length" THEN SearchLength(s)
    ELSE SearchAlternatives(s, RequirementWords[req_type])

RECURSIVE RequirementsFrom(_, _)
RequirementsFrom(s, k) ==
    IF k > Len(RequirementTypes) THEN <<>>
    ELSE LET m == RequirementSearch(RequirementTypes[k], s)
         IN  (IF m = <<>> THEN <<>>
              ELSE <<Capitalize(RequirementTypes[k]) \o ": " \o m[1]>>)
             \o RequirementsFrom(s, k + 1)

_extract_requirements(prompt) == RequirementsFrom(Lower(prompt), 1)

ConstraintIndicators ==
    <<"must", "should", "need to", "required", "limit", "only",
      "avoid", "without", "don't", "cannot", "restriction">>

_extract_constraints(prompt) ==
    LET sentences == SplitOn(prompt, ".")
        IsConstraint(sentence) == ContainsAny(Lower(sentence), ConstraintIndicators)
        found == SelectSeq(sentences, IsConstraint)
    IN  [k \in 1..Len(found) |-> Strip(found[k])]

VagueIndicators == <<"something", "anything", "stuff", "thing", "somehow", "whatever">>
FormatIndicators == <<"format", "structure", "output", "return", "give me", "provide">>
AmbiguousPronouns == <<"it", "this", "that", "they", "them">>

IssueVague == "Contains vague terms"
IssueBrief == "Very brief - may lack necessary context"
IssueFormat == "Output format not specified"
IssuePronouns == "Contains potentially ambiguous pronouns"

BriefBelow == 5

_identify_clarity_issues(prompt) ==
    LET low == Lower(prompt)
    IN  (IF ContainsAny(low, VagueIndicators) THEN <<IssueVague>> ELSE <<>>)
        \o (IF Len(Split(prompt)) < BriefBelow THEN <<IssueBrief>> ELSE <<>>)
        \o (IF ~ContainsAny(low, FormatIndicators) THEN <<IssueFormat>> ELSE <<>>)
        \o (IF HasWholeWord(low, AmbiguousPronouns) THEN <<IssuePronouns>> ELSE <<>>)

creative_keywords ==
    <<"story", "creative", "imagine", "invent", "design", "brainstorm",
      "idea", "novel", "poem", "art">>
technical_keywords ==
    <<"code", "program", "debug", "algorithm", "function", "api",
      "technical", "system", "implementation", "architecture">>
analytical_keywords ==
    <<"analyze", "compare", "evaluate", "assess", "research",
      "data", "statistics", "metrics", "performance">>
educational_keywords ==
    <<"explain", "teach", "learn", "understand", "tutorial",
      "lesson", "guide", "instruction", "how to">>

CREATIVE == "creative"
TECHNICAL == "technical"
ANALYTICAL == "analytical"
EDUCATIONAL == "educational"
COMPLEX == "complex"
SIMPLE == "simple"
TaskType == {CREATIVE, TECHNICAL, ANALYTICAL, EDUCATIONAL, COMPLEX, SIMPLE}

ComplexWords == 30
ComplexPieces == 2

\* Variant: the technical keywords tested before the creative ones.
task_type_technical_first(prompt, intent) ==
    LET prompt_lower == Lower(prompt)
    IN  IF ContainsAny(prompt_lower, technical_keywords) THEN TECHNICAL
        ELSE IF ContainsAny(prompt_lower, creative_keywords) THEN CREATIVE
        ELSE IF ContainsAny(prompt_lower, analytical_keywords) THEN ANALYTICAL
        ELSE IF ContainsAny(prompt_lower, educational_keywords) THEN EDUCATIONAL
        ELSE IF Len(Split(prompt)) > ComplexWords
                \/ Len(SplitOn(prompt, ".")) > ComplexPieces THEN COMPLEX
        ELSE SIMPLE

\* Variant: only the number of sentence pieces makes a prompt Complex.
task_type_pieces_only(prompt, intent) ==
    LET prompt_lower == Lower(prompt)
    IN  IF ContainsAny(prompt_lower, creative_keywords) THEN CREATIVE
        ELSE IF ContainsAny(prompt_lower, technical_keywords) THEN TECHNICAL
        ELSE IF ContainsAny(prompt_lower, analytical_keywords) THEN ANALYTICAL
        ELSE IF ContainsAny(prompt_lower, educational_keywords) THEN EDUCATIONAL
        ELSE IF Len(SplitOn(prompt, ".")) > ComplexPieces THEN COMPLEX
        ELSE SIMPLE

_determine_task_type(prompt, intent) ==
    LET prompt_lower == Lower(prompt)
    IN  IF ContainsAny(prompt_lower, creative_keywords) THEN CREATIVE
        ELSE IF ContainsAny(prompt_lower, technical_keywords) THEN TECHNICAL
        ELSE IF ContainsAny(prompt_lower, analytical_keywords) THEN ANALYTICAL
        ELSE IF ContainsAny(prompt_lower, educational_keywords) THEN EDUCATIONAL
        ELSE IF Len(Split(prompt)) > ComplexWords
                \/ Len(SplitOn(prompt, ".")) > ComplexPieces THEN COMPLEX
        ELSE SIMPLE

BaseScore == 5
ShortWords == 10
LongWords == 50
MinScore == 0
MaxScore == 10

\* Variant: max(0, score), the upper clamp forgotten.
ClampFloorOnly(score) == IF score > MinScore THEN score ELSE MinScore

Clamp(score) ==
    LET capped == IF score < MaxScore THEN score ELSE MaxScore
    IN  IF capped > MinScore THEN capped ELSE MinScore

\* Variant: the +2 of Technical and Complex left out.
complexity_without_bonus(prompt, clarity_issues, task_type) ==
    LET word_count == Len(Split(prompt))
        by_length == IF word_count < ShortWords THEN BaseScore - 2
                     ELSE IF word_count > LongWords THEN BaseScore + 2
                     ELSE BaseScore
        by_issues == by_length + Len(clarity_issues)
    IN  Clamp(IF task_type = SIMPLE THEN by_issues - 2 ELSE by_issues)

\* Variant: no adjustment for the task type.
complexity_without_task_type(prompt, clarity_issues, task_type) ==
    LET word_count == Len(Split(prompt))
        by_length == IF word_count < ShortWords THEN BaseScore - 2
                     ELSE IF word_count > LongWords THEN BaseScore + 2
                     ELSE BaseScore
    IN  Clamp(by_length + Len(clarity_issues))

_calculate_complexity(prompt, clarity_issues, task_type) ==
    LET word_count == Len(Split(prompt))
        by_length == IF word_count < ShortWords THEN BaseScore - 2
                     ELSE IF word_count > LongWords THEN BaseScore + 2
                     ELSE BaseScore
        by_issues == by_length + Len(clarity_issues)
        by_type   == IF task_type \in {TECHNICAL, COMPLEX} THEN by_issues + 2
                     ELSE IF task_type = SIMPLE THEN by_issues - 2
                     ELSE by_issues
    IN  Clamp(by_type)

\* What deconstruct computes from the prompt alone: every field but
\* key_entities, and the list of entities before it is made a set.
scan_prompt(prompt) ==
    LET core_intent == _extract_intent(prompt)
        clarity_issues == _identify_clarity_issues(prompt)
        task_type == _determine_task_type(prompt, core_intent)
    IN  [core_intent |-> core_intent,
         entities |-> entity_list(prompt),
         context_level |-> _assess_context(prompt),
         output_requirements |-> _extract_requirements(prompt),
         constraints |-> _extract_constraints(prompt),
         clarity_issues |-> clarity_issues,
         task_type |-> task_type,
         complexity_score |-> _calculate_complexity(prompt, clarity_issues, task_type)]

\* The PromptAnalysis deconstruct returns in a process whose hash seed is seed.
analysis_of(scan, seed) ==
    [core_intent |-> scan.core_intent,
     key_entities |-> unique_entities(scan.entities, seed),
     context_level |-> scan.context_level,
     output_requirements |-> scan.output_requirements,
     constraints |-> scan.constraints,
     clarity_issues |-> scan.clarity_issues,
     task_type |-> scan.task_type,
     complexity_score |-> scan.complexity_score]

deconstruct(prompt, seed) == analysis_of(scan_prompt(prompt), seed)

\* deconstruct raises exactly when _extract_entities does: no other helper
\* indexes, divides or dereferences a failed match.
DeconstructRaises(prompt) == EntitiesRaises(Split(prompt))


(***************************************************************************)
(* 2. DIAGNOSE                                                             *)
(***************************************************************************)
NeedDetails == "Add more specific details and context"
NeedFormat == "Specify desired output format"
NeedContext == "Provide more context and background"
NeedSteps == "Break down into steps or add constraints"

\* Variant: details asked for only when no entity at all was found.
diagnose_no_entity_only(analysis) ==
    [critical_issues |-> analysis.clarity_issues,
     improvements_needed |->
        (IF analysis.key_entities = <<>> THEN <<NeedDetails>> ELSE <<>>)
        \o (IF analysis.output_requirements = <<>> THEN <<NeedFormat>> ELSE <<>>)
        \o (IF analysis.context_level = "Low" THEN <<NeedContext>> ELSE <<>>)
        \o (IF analysis.complexity_score > 7 /\ analysis.constraints = <<>>
            THEN <<NeedSteps>> ELSE <<>>),
     strengths |->
        (IF analysis.context_level = "High" THEN <<"Good context provided">> ELSE <<>>)
        \o (IF analysis.constraints # <<>> THEN <<"Clear constraints specified">> ELSE <<>>)
        \o (IF analysis.output_requirements # <<>>
            THEN <<"Output requirements defined">> ELSE <<>>)]

diagnose(analysis) ==
    [critical_issues |-> analysis.clarity_issues,
     improvements_needed |->
        (IF Len(analysis.key_entities) < 2 THEN <<NeedDetails>> ELSE <<>>)
        \o (IF analysis.output_requirements = <<>> THEN <<NeedFormat>> ELSE <<>>)
        \o (IF analysis.context_level = "Low" THEN <<NeedContext>> ELSE <<>>)
        \o (IF analysis.complexity_score > 7 /\ analysis.constraints = <<>>
            THEN <<NeedSteps>> ELSE <<>>),
     strengths |->
        (IF analysis.context_level = "High" THEN <<"Good context provided">> ELSE <<>>)
        \o (IF analysis.constraints # <<>> THEN <<"Clear constraints specified">> ELSE <<>>)
        \o (IF analysis.output_requirements # <<>>
            THEN <<"Output requirements defined">> ELSE <<>>)]

(***************************************************************************)
(* 3. DEVELOP                                                              *)
(***************************************************************************)
DETAIL == "detail"
BASIC == "basic"
Mode == {DETAIL, BASIC}

CHATGPT == "chatgpt"
CLAUDE == "claude"
GEMINI == "gemini"
\* AIPlatform.OTHER (OTHER is a keyword of TLA+).
PLATFORM_OTHER == "other"
AIPlatform == {CHATGPT, CLAUDE, GEMINI, PLATFORM_OTHER}

InSeq(x, seq) == \E k \in 1..Len(seq) : seq[k] = x

\* Variant: chain_of_thought selected from complexity_score 7 on.
select_techniques_cot_at_seven(analysis, mode) ==
    <<"role_assignment", "task_decomposition">>
    \o (IF mode = DETAIL THEN <<"context_layering", "output_specs">> ELSE <<>>)
    \o (IF analysis.complexity_score >= 7 THEN <<"chain_of_thought">> ELSE <<>>)
    \o (IF analysis.task_type = CREATIVE THEN <<"multi_perspective">> ELSE <<>>)
    \o (IF analysis.task_type = TECHNICAL THEN <<"constraint_based">> ELSE <<>>)
    \o (IF analysis.task_type = EDUCATIONAL THEN <<"few_shot">> ELSE <<>>)

\* Variant: context_layering and output_specs selected in every mode.
select_techniques_any_mode(analysis, mode) ==
    <<"role_assignment", "task_decomposition", "context_layering", "output_specs">>
    \o (IF analysis.complexity_score > 7 THEN <<"chain_of_thought">> ELSE <<>>)
    \o (IF analysis.task_type = CREATIVE THEN <<"multi_perspective">> ELSE <<>>)
    \o (IF analysis.task_type = TECHNICAL THEN <<"constraint_based">> ELSE <<>>)
    \o (IF analysis.task_type = EDUCATIONAL THEN <<"few_shot">> ELSE <<>>)

_select_techniques(analysis, mode) ==
    <<"role_assignment", "task_decomposition">>
    \o (IF mode = DETAIL THEN <<"context_layering", "output_specs">> ELSE <<>>)
    \o (IF analysis.complexity_score > 7 THEN <<"chain_of_thought">> ELSE <<>>)
    \o (IF analysis.task_type = CREATIVE THEN <<"multi_perspective">> ELSE <<>>)
    \o (IF analysis.task_type = TECHNICAL THEN <<"constraint_based">> ELSE <<>>)
    \o (IF analysis.task_type = EDUCATIONAL THEN <<"few_shot">> ELSE <<>>)

_assign_role(task_type) ==
    CASE task_type = CREATIVE ->
           "You are a creative expert with a talent for innovative thinking and storytelling."
      [] task_type = TECHNICAL ->
           "You are an experienced technical specialist with deep expertise in software development and problem-solving."
      [] task_type = ANALYTICAL ->
           "You are a data analyst and critical thinker skilled at breaking down complex information."
      [] task_type = EDUCATIONAL ->
           "You are an expert educator who excels at explaining concepts clearly and effectively."
      [] task_type = COMPLEX ->
           "You are a strategic thinker capable of handling multifaceted challenges systematically."
      [] OTHER ->
           "You are a helpful assistant focused on providing clear, concise responses."

\* seq[:n]
Take(seq, n) == SubSeq(seq, 1, IF Len(seq) < n THEN Len(seq) ELSE n)

ContextHeader == "\n**Context:** "

\* Variant: the Context block built whatever the context level.
enhance_context_always(prompt, analysis) ==
    ContextHeader
    \o (IF analysis.key_entities # <<>>
        THEN "This task involves " \o Join(", ", Take(analysis.key_entities, 3)) \o ". "
        ELSE "")

_enhance_context(prompt, analysis) ==
    IF analysis.context_level = "High" THEN ""
    ELSE ContextHeader
         \o (IF analysis.key_entities # <<>>
             THEN "This task involves " \o Join(", ", Take(analysis.key_entities, 3)) \o ". "
             ELSE "")

TaskHeader == "**Task:** "

_clarify_task(prompt, analysis) ==
    TaskHeader \o analysis.core_intent
    \o (IF analysis.key_entities # <<>>
        THEN "\n**Focus areas:** " \o Join(", ", Take(analysis.key_entities, 5))
        ELSE "")

\* "\n- x" for every x of items, concatenated.
RECURSIVE Bullets(_)
Bullets(items) ==
    IF items = <<>> THEN ""
    ELSE "\n- " \o Head(items) \o Bullets(Tail(items))

OutputHeader == "\n**Output Requirements:**"

_create_output_spec(analysis, platform) ==
    OutputHeader
    \o (IF analysis.output_requirements # <<>> THEN Bullets(analysis.output_requirements)
        ELSE IF analysis.task_type = TECHNICAL
             THEN "\n- Clear, well-commented code" \o "\n- Explanation of approach"
        ELSE IF analysis.task_type = CREATIVE
             THEN "\n- Original and engaging content" \o "\n- Appropriate tone and style"
        ELSE "\n- Clear and well-structured response"
             \o "\n- Specific and actionable information")

_add_technical_constraints(analysis) ==
    "\n**Technical Requirements:**"
    \o "\n- Follow best practices and coding standards"
    \o "\n- Consider edge cases and error handling"
    \o "\n- Optimize for performance and maintainability"

ApproachSuffix ==
    "\n\n**Approach:** Break this down systematically and explain your reasoning."
GeminiSuffix ==
    "\n\nFeel free to explore creative angles and multiple possibilities."

\* Variant: the Claude sentence appended whatever the complexity score.
platform_formatting_claude_always(prompt, platform, analysis) ==
    IF platform = CHATGPT THEN prompt
    ELSE IF platform = CLAUDE THEN prompt \o ApproachSuffix
    ELSE IF platform = GEMINI
         THEN IF analysis.task_type = CREATIVE THEN prompt \o GeminiSuffix ELSE prompt
    ELSE prompt

_apply_platform_formatting(prompt, platform, analysis) ==
    IF platform = CHATGPT THEN prompt
    ELSE IF platform = CLAUDE
         THEN IF analysis.complexity_score > 7 THEN prompt \o ApproachSuffix ELSE prompt
    ELSE IF platform = GEMINI
         THEN IF analysis.task_type = CREATIVE THEN prompt \o GeminiSuffix ELSE prompt
    ELSE prompt

MultiPerspectiveBlock == "\nConsider multiple perspectives and creative angles."
FewShotBlock == "\nProvide clear examples and step-by-step explanations."
ChainOfThoughtBlock == "\nThink through this step-by-step, showing your reasoning."
ConstraintsHeader == "\n**Constraints:**"

\* optimized_parts of develop, before it is joined.
\* Variant: step 5 tests each technique on its own, so several blocks can
\* be emitted.
develop_parts_every_block(prompt, analysis, platform, mode) ==
    LET techniques == _select_techniques(analysis, mode)
        context == _enhance_context(prompt, analysis)
    IN  (IF InSeq("role_assignment", techniques)
         THEN <<_assign_role(analysis.task_type)>> ELSE <<>>)
        \o (IF InSeq("context_layering", techniques) /\ context # ""
            THEN <<context>> ELSE <<>>)
        \o <<_clarify_task(prompt, analysis)>>
        \o (IF InSeq("output_specs", techniques)
            THEN <<_create_output_spec(analysis, platform)>> ELSE <<>>)
        \o (IF analysis.task_type = CREATIVE /\ InSeq("multi_perspective", techniques)
            THEN <<MultiPerspectiveBlock>> ELSE <<>>)
        \o (IF analysis.task_type = TECHNICAL /\ InSeq("constraint_based", techniques)
            THEN <<_add_technical_constraints(analysis)>> ELSE <<>>)
        \o (IF analysis.task_type = EDUCATIONAL /\ InSeq("few_shot", techniques)
            THEN <<FewShotBlock>> ELSE <<>>)
        \o (IF analysis.complexity_score > 7 /\ InSeq("chain_of_thought", techniques)
            THEN <<ChainOfThoughtBlock>> ELSE <<>>)
        \o (IF analysis.constraints # <<>> /\ mode = DETAIL
            THEN <<ConstraintsHeader>>
                 \o [k \in 1..Len(analysis.constraints) |-> "- " \o analysis.constraints[k]]
            ELSE <<>>)

develop_parts(prompt, analysis, platform, mode) ==
    LET techniques == _select_techniques(analysis, mode)
        context == _enhance_context(prompt, analysis)
    IN  (IF InSeq("role_assignment", techniques)
         THEN <<_assign_role(analysis.task_type)>> ELSE <<>>)
        \o (IF InSeq("context_layering", techniques) /\ context # ""
            THEN <<context>> ELSE <<>>)
        \o <<_clarify_task(prompt, analysis)>>
        \o (IF InSeq("output_specs", techniques)
            THEN <<_create_output_spec(analysis, platform)>> ELSE <<>>)
        \o (IF analysis.task_type = CREATIVE /\ InSeq("multi_perspective", techniques)
            THEN <<MultiPerspectiveBlock>>
            ELSE IF analysis.task_type = TECHNICAL /\ InSeq("constraint_based", techniques)
            THEN <<_add_technical_constraints(analysis)>>
            ELSE IF analysis.task_type = EDUCATIONAL /\ InSeq("few_shot", techniques)
            THEN <<FewShotBlock>>
            ELSE IF analysis.complexity_score > 7 /\ InSeq("chain_of_thought", techniques)
            THEN <<ChainOfThoughtBlock>>
            ELSE <<>>)
        \o (IF analysis.constraints # <<>> /\ mode = DETAIL
            THEN <<ConstraintsHeader>>
                 \o [k \in 1..Len(analysis.constraints) |-> "- " \o analysis.constraints[k]]
            ELSE <<>>)

develop(prompt, analysis, platform, mode) ==
    _apply_platform_formatting(
        Join("\n\n", develop_parts(prompt, analysis, platform, mode)),
        platform, analysis)

(***************************************************************************)
(* 4. DELIVER                                                              *)
(***************************************************************************)
\* str(n) for the counts that occur (0..9).
DigitStr(n) == Char(Digits, n + 1)

IterationTip ==
    "For complex requests, consider iterating: start with a draft and refine based on the output."
GenericTip == "Be specific about what success looks like for your request."

\* Variant: the tip of the task type looked up before the complexity test.
pro_tip_by_type_first(analysis, mode) ==
    CASE analysis.task_type = CREATIVE ->
            "For creative tasks, consider asking for multiple variations to find the best fit."
      [] analysis.task_type = TECHNICAL ->
            "When asking for code, specify your programming language, version, and any frameworks upfront."
      [] analysis.task_type = ANALYTICAL ->
            "For analysis tasks, provide sample data or clear criteria for evaluation."
      [] analysis.task_type = EDUCATIONAL ->
            "Learning works best when you ask follow-up questions and request examples."
      [] analysis.task_type = COMPLEX ->
            "Break complex tasks into smaller subtasks for better results."
      [] OTHER -> IF analysis.complexity_score > 7 THEN IterationTip ELSE GenericTip

_generate_pro_tip(analysis, mode) ==
    IF analysis.complexity_score > 7 THEN IterationTip
    ELSE CASE analysis.task_type = CREATIVE ->
                "For creative tasks, consider asking for multiple variations to find the best fit."
           [] analysis.task_type = TECHNICAL ->
                "When asking for code, specify your programming language, version, and any frameworks upfront."
           [] analysis.task_type = ANALYTICAL ->
                "For analysis tasks, provide sample data or clear criteria for evaluation."
           [] analysis.task_type = EDUCATIONAL ->
                "Learning works best when you ask follow-up questions and request examples."
           [] analysis.task_type = COMPLEX ->
                "Break complex tasks into smaller subtasks for better results."
           [] OTHER -> GenericTip

deliver(optimized_prompt, analysis, diagnosis, techniques, mode) ==
    LET needed == Join(" ", diagnosis.improvements_needed)
    IN  [optimized_prompt |-> optimized_prompt,
         improvements |->
            (IF diagnosis.critical_issues # <<>>
             THEN <<"Fixed " \o DigitStr(Len(diagnosis.critical_issues)) \o " clarity issues">>
             ELSE <<>>)
            \o (IF Contains(needed, "Add more specific details")
                THEN <<"Enhanced specificity and detail">> ELSE <<>>)
            \o (IF Contains(needed, "Specify desired output format")
                THEN <<"Added clear output specifications">> ELSE <<>>)
            \o (IF Contains(needed, "Provide more context")
                THEN <<"Layered additional context">> ELSE <<>>)
            \o <<"Optimized for " \o analysis.task_type \o " tasks">>,
         techniques_applied |-> techniques,
         pro_tip |-> _generate_pro_tip(analysis, mode)]

(***************************************************************************)
(* PUBLIC API                                                              *)
(***************************************************************************)
\* Variant: the platform string matched without lower-casing it.
parse_platform_case_sensitive(platform) ==
    IF Contains(platform, "chatgpt") \/ Contains(platform, "gpt") THEN CHATGPT
    ELSE IF Contains(platform, "claude") THEN CLAUDE
    ELSE IF Contains(platform, "gemini") THEN GEMINI
    ELSE PLATFORM_OTHER

_parse_platform(platform) ==
    LET platform_lower == Lower(platform)
    IN  IF Contains(platform_lower, "chatgpt") \/ Contains(platform_lower, "gpt")
        THEN CHATGPT
        ELSE IF Contains(platform_lower, "claude") THEN CLAUDE
        ELSE IF Contains(platform_lower, "gemini") THEN GEMINI
        ELSE PLATFORM_OTHER

_parse_mode(mode) == IF Contains(Lower(mode), "detail") THEN DETAIL ELSE BASIC

simple_indicators == <<"write", "create", "make">>
complex_indicators == <<"professional", "business", "technical", "comprehensive", "detailed">>

AutoShortWords == 15
AutoLongWords == 25

\* Variant: the DETAIL rule tested before the BASIC rule.
auto_detect_detail_first(prompt) ==
    LET word_count == Len(Split(prompt))
    IN  IF word_count > AutoLongWords \/ ContainsAny(Lower(prompt), complex_indicators)
        THEN DETAIL
        ELSE BASIC

_auto_detect_mode(prompt) ==
    LET word_count == Len(Split(prompt))
    IN  IF word_count < AutoShortWords /\ ContainsAny(Lower(prompt), simple_indicators)
        THEN BASIC
        ELSE IF word_count > AutoLongWords \/ ContainsAny(Lower(prompt), complex_indicators)
        THEN DETAIL
        ELSE BASIC

\* optimize after its calls of _auto_detect_mode and deconstruct (auto_mode
\* and analysis are what they return): the locals of optimize.
optimize_locals(prompt, platform, mode, auto_mode, analysis) ==
    LET platform_enum == _parse_platform(platform)
        mode_enum == IF mode = "auto" THEN auto_mode ELSE _parse_mode(mode)
    IN  [platform_enum |-> platform_enum,
         mode_enum |-> mode_enum,
         analysis |-> analysis,
         diagnosis |-> diagnose(analysis),
         techniques |-> _select_techniques(analysis, mode_enum),
         optimized_parts |-> develop_parts(prompt, analysis, platform_enum, mode_enum),
         optimized_prompt |-> develop(prompt, analysis, platform_enum, mode_enum)]

optimize_result(l) ==
    deliver(l.optimized_prompt, l.analysis, l.diagnosis, l.techniques, l.mode_enum)

optimize(prompt, platform, mode, seed) ==
    optimize_result(optimize_locals(prompt, platform, mode, _auto_detect_mode(prompt),
                                    deconstruct(prompt, seed)))

QFormat == "What format would you like the output in? (e.g., bullet points, paragraph, code)"
QAudience == "Who is the target audience?"
QConstraints == "Are there any specific constraints or requirements I should know about?"
QLength == "What length are you aiming for?"

MaxQuestions == 3

\* The questions triggered, before the list is cut.
triggered_questions(analysis) ==
    LET reqs == analysis.output_requirements
        has_audience == \E k \in 1..Len(reqs) : Contains(Lower(reqs[k]), "audience")
        has_length == \E k \in 1..Len(reqs) : StartsWith(reqs[k], "Length:")
    IN  (IF reqs = <<>> THEN <<QFormat>> ELSE <<>>)
        \o (IF analysis.task_type \in {CREATIVE, EDUCATIONAL} /\ ~has_audience
            THEN <<QAudience>> ELSE <<>>)
        \o (IF analysis.complexity_score > 7 /\ analysis.constraints = <<>>
            THEN <<QConstraints>> ELSE <<>>)
        \o (IF ~has_length /\ analysis.task_type # TECHNICAL THEN <<QLength>> ELSE <<>>)

\* Variant: the list returned without the cut to three.
all_triggered_questions(analysis) == triggered_questions(analysis)

generate_clarifying_questions(analysis) == Take(triggered_questions(analysis), MaxQuestions)


(***************************************************************************)
(* cli.py: LyraCLI.parse_input                                             *)
(***************************************************************************)
\* s[n:]
Drop(s, n) == SubSeq(s, n + 1, Len(s))

\* str.split(sep, 1): the text before and after the first occurrence of sep
\* (matched as written, case included), or the whole string when sep does
\* not occur.
SplitOnce(s, sep) ==
    LET hits == {i \in 1..(Len(s) - Len(sep) + 1) : StartsAt(s, sep, i)}
    IN  IF hits = {} THEN <<s>>
        ELSE <<SubSeq(s, 1, Min(hits) - 1), Drop(s, Min(hits) + Len(sep) - 1)>>

\* The platform named at the start of platform_part, and what follows it.
parse_platform_part(platform_part) ==
    LET part_lower == Lower(platform_part)
    IN  IF StartsWith(part_lower, "chatgpt")
        THEN <<"chatgpt", Strip(Drop(platform_part, 7))>>
        ELSE IF StartsWith(part_lower, "claude")
        THEN <<"claude", Strip(Drop(platform_part, 6))>>
        ELSE IF StartsWith(part_lower, "gemini")
        THEN <<"gemini", Strip(Drop(platform_part, 6))>>
        ELSE IF StartsWith(part_lower, "gpt")
        THEN <<"chatgpt", Strip(Drop(platform_part, 3))>>
        ELSE <<"other", platform_part>>

\* The tuple (platform, mode, prompt).
parse_input(user_input) ==
    LET input_lower == Lower(user_input)
        mode == IF StartsWith(input_lower, "detail") THEN "detail" ELSE "basic"
        after_mode == IF StartsWith(input_lower, "detail")
                      THEN Strip(Drop(user_input, 6))
                      ELSE IF StartsWith(input_lower, "basic")
                      THEN Strip(Drop(user_input, 5))
                      ELSE user_input
        parts == SplitOnce(after_mode, "using")
    IN  IF Contains(Lower(after_mode), "using")
        THEN IF Len(parts) = 2
             THEN LET named == parse_platform_part(Strip(parts[2]))
                      prompt == IF StartsWith(named[2], "-")
                                THEN Strip(Drop(named[2], 1))
                                ELSE named[2]
                  IN  <<named[1], mode, prompt>>
             ELSE <<"other", mode, user_input>>
        ELSE <<"other", mode, after_mode>>


(***************************************************************************)
(* Inputs.  A prompt is the concatenation of at most MaxAtoms atoms; the   *)
(* atoms carry the words the source looks for, whitespace, punctuation and *)
(* a run of 26 words, so that two atoms reach every word-count threshold.  *)
(***************************************************************************)
MaxAtoms == 2

Filler == "z z z z z z z z z z z z z z z z z z z z z z z z z it "

PromptAtoms ==
    <<"Help", "Write ", "email", "a story. ", "code it ", "analyze data ",
      "explain ", "must provide 500 words for ", "professional ", "The Plan, ",
      "\n", ".", Filler>>

\* The concatenations of n atoms of the sequence atoms.
RECURSIVE Concatenations(_, _)
Concatenations(atoms, n) ==
    IF n = 0 THEN {""}
    ELSE {front \o atoms[k] : front \in Concatenations(atoms, n - 1), k \in 1..Len(atoms)}

StringsOf(atoms) == UNION {Concatenations(atoms, n) : n \in 0..MaxAtoms}

\* Lines typed at the prompt of the interactive loop: the three words that
\* end it (in several cases, with blanks around), blank lines, lines that
\* parse to an empty prompt, and prompts of each kind with and without a mode
\* and a platform in front.
InteractiveInputs ==
    {"quit", "  EXIT ", "Q", "quit now",
     "", "   ",
     "detail using", "BASIC using Claude -",
     "Help",
     "basic code it",
     "do something with it for the ten of us here now",
     "detail whatever it is",
     "detail code it must provide 500 words for",
     "DETAIL using ChatGPT - Write me a marketing email",
     "Detail USING gpt - Help"}

\* The prompts parse_input hands to optimize for these lines.
ExtraPrompts == {parse_input(Strip(line))[3] : line \in InteractiveInputs}

Prompts == StringsOf(PromptAtoms) \cup ExtraPrompts

PlatformArgs == {"other", "GPT-4", "Claude Opus", "gemini"}
ModeArgs == {"basic", "detail", "auto"}

\* Arguments of _parse_platform and _parse_mode called on their own.
PlatformAtoms == <<"GPT", "gpt", "-4", "Chat", "Claude", " Opus", "CLAUDE", "gem", "ini", "x">>
ModeAtoms == <<"detail", "DETAIL", "ed", "de", "tail", "basic", "auto", " ", "x">>

\* Analysis records handed to generate_clarifying_questions by a caller.
RequirementLists ==
    {<<>>, <<"Length: 500 words">>, <<"Audience: for">>, <<"Format: format">>,
     <<"Length: 5 pages", "Tone: formal", "Audience: audience">>}

AnalysisRecords ==
    [core_intent : {"write"},
     key_entities : {<<>>},
     context_level : {"Low"},
     output_requirements : RequirementLists,
     constraints : {<<>>, <<"must be short">>},
     clarity_issues : {<<>>},
     task_type : TaskType,
     complexity_score : MinScore..MaxScore]

\* The seeds of the interpreter's string hashing (one per process).
\* Command lines "[DETAIL|BASIC] using [Platform] - prompt text" in several
\* letter cases, and lines that lack one of the parts.
ModeWords == {"DETAIL", "detail", "BASIC", "Basic"}
UsingWords == {"using", "USING", "Using"}
PlatformWords == {"ChatGPT", "GPT", "gpt", "Claude", "CLAUDE", "Gemini"}
PromptTexts == {"Write me a marketing email", "Help with my resume", "stop using it"}
CommandLine(mode, using, platform, text) ==
    mode \o " " \o using \o " " \o platform \o " - " \o text
FormedLines ==
    {CommandLine(m, u, p, t) :
        m \in ModeWords, u \in UsingWords, p \in PlatformWords, t \in PromptTexts}
OtherLines ==
    {"Write email", "DETAIL Help", "using Claude - Help", "basic using Llama - Help",
     "detail using", "Detail using gemini Help", "USING"}
CommandLines == FormedLines \cup OtherLines

\* Analysis records handed to develop directly: both sides of each test that
\* develop makes, a repeated constraint included.
DevelopAnalyses ==
    [core_intent : {"write email"},
     key_entities : {<<>>, <<"email", "Write">>},
     context_level : {"Low", "High"},
     output_requirements : {<<>>, <<"Length: 500 words", "Audience: for">>},
     constraints : {<<>>, <<"must be short">>, <<"only a", "no b", "only a">>},
     clarity_issues : {<<>>},
     task_type : TaskType,
     complexity_score : {7, 8}]

NumSeeds == 2
HashSeeds == 0..(NumSeeds - 1)

(***************************************************************************)
(* The state: one LyraOptimizer instance in one interpreter process (whose *)
(* hash seed is hashSeed), the call made on it and what the call returned. *)
(* rerun[s] is what the same call returns when the program is run again,   *)
(* in an interpreter process whose hash seed is s.                         *)
(***************************************************************************)
VARIABLES self, hashSeed, pc, call, locals, ret, rerun

vars == <<self, hashSeed, pc, call, locals, ret, rerun>>

NONE == "None"

\* LyraOptimizer.__init__
NewOptimizer == [platform |-> NONE, mode |-> NONE]

\* Variant: optimize keeps the parsed platform and mode in the instance.
self_remembers_call(instance, platform_enum, mode_enum) ==
    [platform |-> platform_enum, mode |-> mode_enum]

\* What a call leaves in the fields of the instance it is called on: no
\* method assigns to self.platform or self.mode.
self_after_call(instance, platform_enum, mode_enum) == instance

\* What generate_clarifying_questions leaves in the record passed to it.
analysis_after_questions(analysis) == analysis

\* scan_prompt on every prompt of the model, as a table (f @@ <<>> is f,
\* enumerated once instead of evaluated at every use).
Scans == [prompt \in Prompts |-> scan_prompt(prompt)] @@ <<>>

\* deconstruct(prompt, seed), read from the table.
Analysis(prompt, seed) == analysis_of(Scans[prompt], seed)

\* DeconstructRaises and _auto_detect_mode on every prompt, as tables.
Raises == [prompt \in Prompts |-> DeconstructRaises(prompt)] @@ <<>>
AutoModes == [prompt \in Prompts |-> _auto_detect_mode(prompt)] @@ <<>>

\* The Analysis records deconstruct returns in a process with the given seed.
Deconstructed ==
    [seed \in HashSeeds |-> {Analysis(prompt, seed) : prompt \in Prompts}] @@ <<>>

(***************************************************************************)
(* cli.py: LyraCLI.interactive_mode                                        *)
(*                                                                         *)
(* What print writes is kept as the list of its arguments.  The characters  *)
(* outside ASCII are written in ASCII: the bullet as "*", the two           *)
(* pictographs (in front of "Analyzing" and "Error") left out.              *)
(***************************************************************************)
\* "=" * 70 and "-" * 70
DoubleRule == "======================================================================"
SingleRule == "----------------------------------------------------------------------"

WELCOME_MESSAGE ==
    "Hello! I'm Lyra, your AI prompt optimizer. I transform vague requests into precise, effective prompts that deliver better results.\n"
    \o "\n**What I need to know:**\n"
    \o "* Target AI: ChatGPT, Claude, Gemini, or Other\n"
    \o "* Prompt Style: DETAIL (I'll ask clarifying questions first) or BASIC (quick optimization)\n"
    \o "\n**Examples:**\n"
    \o "* \"DETAIL using ChatGPT - Write me a marketing email\"\n"
    \o "* \"BASIC using Claude - Help with my resume\"\n"
    \o "\nJust share your rough prompt and I'll handle the optimization!"

print_welcome == <<"\n" \o DoubleRule, WELCOME_MESSAGE, DoubleRule \o "\n">>

\* str.upper()
RECURSIVE Upper(_)
Upper(s) ==
    LET c == Char(s, 1)
        k == CHOOSE i \in 1..Len(LowerLetters) : Char(LowerLetters, i) = c
    IN  IF s = "" THEN ""
        ELSE (IF c \in LowerSet THEN Char(UpperLetters, k) ELSE c) \o Upper(Drop(s, 1))

\* One printed line for each item: the prefix, then the item.
RECURSIVE ItemLines(_, _)
ItemLines(prefix, items) ==
    IF items = <<>> THEN <<>>
    ELSE <<prefix \o Head(items)>> \o ItemLines(prefix, Tail(items))

\* for i, question in enumerate(questions, 1): print(f"  {i}. {question}")
RECURSIVE NumberedLines(_, _)
NumberedLines(items, i) ==
    IF i > Len(items) THEN <<>>
    ELSE <<"  " \o DigitStr(i) \o ". " \o items[i]>> \o NumberedLines(items, i + 1)

TechniqueLines(result) ==
    <<"\n" \o SingleRule,
      "TECHNIQUES APPLIED:",
      "  " \o Join(", ", result.techniques_applied)>>

format_result_simple(result, show_techniques) ==
    <<"\n" \o DoubleRule, "YOUR OPTIMIZED PROMPT:", DoubleRule,
      result.optimized_prompt,
      "\n" \o SingleRule, "WHAT CHANGED:">>
    \o ItemLines("  * ", result.improvements)
    \o (IF show_techniques /\ result.techniques_applied # <<>>
        THEN TechniqueLines(result) ELSE <<>>)
    \o <<DoubleRule \o "\n">>

format_result_complex(result) ==
    <<"\n" \o DoubleRule, "YOUR OPTIMIZED PROMPT:", DoubleRule,
      result.optimized_prompt,
      "\n" \o SingleRule, "KEY IMPROVEMENTS:">>
    \o ItemLines("  * ", result.improvements)
    \o (IF result.techniques_applied # <<>> THEN TechniqueLines(result) ELSE <<>>)
    \o (IF result.pro_tip # ""
        THEN <<"\n" \o SingleRule, "PRO TIP:", "  " \o result.pro_tip>> ELSE <<>>)
    \o <<DoubleRule \o "\n">>

\* The lines 116-122 print when the list of questions is not empty.
clarification_lines(questions) ==
    IF questions = <<>> THEN <<>>
    ELSE <<"\n" \o SingleRule,
           "OPTIONAL CLARIFICATIONS:",
           "(These could further improve your prompt)">>
         \o NumberedLines(questions, 1)
         \o <<SingleRule \o "\n">>

\* The head of every pass of the loop (lines 79-81), up to input().
PromptLines ==
    <<"\nEnter your prompt (or 'quit' to exit):",
      "Format: [DETAIL/BASIC] using [Platform] - Your prompt",
      "Example: DETAIL using ChatGPT - Write me a marketing email\n">>

QuitWords == {"quit", "exit", "q"}

Goodbye == "\nThank you for using Lyra! Goodbye.\n"
EnterPrompt == "Please enter a prompt."
CouldNotParse == "Could not parse prompt. Please try again."
InterruptedGoodbye == "\n\nInterrupted. Goodbye!\n"

Analyzing(mode, platform) ==
    "\nAnalyzing your prompt... (Mode: " \o Upper(mode)
    \o ", Platform: " \o Upper(platform) \o ")"

\* except Exception as e
ErrorLines(e) == <<"\nError: " \o e, "Please try again.\n">>

\* The display rule of line 108.
ComplexAbove == 6

shown_complex(analysis, mode) ==
    analysis.complexity_score > ComplexAbove \/ Lower(mode) = "detail"

\* Variant: the clarifying questions offered in every mode.
turn_questions_always(user_input, branch, parsed, analysis, result) ==
    LET platform == parsed[1]
        mode == parsed[2]
        complex == branch = "result" /\ shown_complex(analysis, mode)
        questions == IF branch = "result" /\ TRUE
                     THEN generate_clarifying_questions(analysis)
                     ELSE <<>>
    IN  [user_input |-> user_input, branch |-> branch,
         platform |-> platform, mode |-> mode, prompt |-> parsed[3],
         called |-> IF branch \in {"raised", "result"} THEN 1 ELSE 0,
         analysis |-> analysis, result |-> result,
         shown |-> IF branch # "result" THEN "none"
                   ELSE IF complex THEN "complex" ELSE "simple",
         questions |-> questions,
         out |-> CASE branch = "quit" -> <<Goodbye>>
                   [] branch = "empty" -> <<EnterPrompt>>
                   [] branch = "unparsed" -> <<CouldNotParse>>
                   [] branch = "eof" -> ErrorLines("EOF when reading a line")
                   [] branch = "raised" ->
                        <<Analyzing(mode, platform)>>
                        \o ErrorLines("list index out of range")
                   [] branch = "result" ->
                        <<Analyzing(mode, platform)>>
                        \o (IF complex THEN format_result_complex(result)
                            ELSE format_result_simple(result, TRUE))
                        \o clarification_lines(questions)]

\* What one pass of the loop body leaves when no interrupt cuts it: its local
\* variables and, in out, what it prints.  branch names the path taken: quit,
\* empty, unparsed, result, raised (an exception out of optimize or
\* deconstruct) or eof (an exception out of input()); called is the number of
\* lines printed before optimize is called (0 when the pass never reaches the
\* call).
turn_record(user_input, branch, parsed, analysis, result) ==
    LET platform == parsed[1]
        mode == parsed[2]
        complex == branch = "result" /\ shown_complex(analysis, mode)
        questions == IF branch = "result" /\ Lower(mode) = "detail"
                     THEN generate_clarifying_questions(analysis)
                     ELSE <<>>
    IN  [user_input |-> user_input, branch |-> branch,
         platform |-> platform, mode |-> mode, prompt |-> parsed[3],
         called |-> IF branch \in {"raised", "result"} THEN 1 ELSE 0,
         analysis |-> analysis, result |-> result,
         shown |-> IF branch # "result" THEN "none"
                   ELSE IF complex THEN "complex" ELSE "simple",
         questions |-> questions,
         out |-> CASE branch = "quit" -> <<Goodbye>>
                   [] branch = "empty" -> <<EnterPrompt>>
                   [] branch = "unparsed" -> <<CouldNotParse>>
                   [] branch = "eof" -> ErrorLines("EOF when reading a line")
                   [] branch = "raised" ->
                        <<Analyzing(mode, platform)>>
                        \o ErrorLines("list index out of range")
                   [] branch = "result" ->
                        <<Analyzing(mode, platform)>>
                        \o (IF complex THEN format_result_complex(result)
                            ELSE format_result_simple(result, TRUE))
                        \o clarification_lines(questions)]

\* The pass of the loop body for the line input() returned.
interactive_turn(line, seed) ==
    LET user_input == Strip(line)
        parsed == parse_input(user_input)
        unparsed == <<NONE, NONE, NONE>>
    IN  IF Lower(user_input) \in QuitWords
        THEN turn_record(user_input, "quit", unparsed, NONE, NONE)
        ELSE IF user_input = ""
        THEN turn_record(user_input, "empty", unparsed, NONE, NONE)
        ELSE IF parsed[3] = ""
        THEN turn_record(user_input, "unparsed", parsed, NONE, NONE)
        ELSE IF Raises[parsed[3]]
        THEN turn_record(user_input, "raised", parsed, NONE, NONE)
        ELSE turn_record(user_input, "result", parsed,
                         Analysis(parsed[3], seed),
                         optimize_result(
                             optimize_locals(parsed[3], parsed[1], parsed[2],
                                             AutoModes[parsed[3]],
                                             Analysis(parsed[3], seed))))

\* The passes of the loop for every line of the model, as a table.
Turns ==
    [seed \in HashSeeds |->
        [line \in InteractiveInputs |-> interactive_turn(line, seed)]] @@ <<>>

Init ==
    /\ self = NewOptimizer
    /\ hashSeed \in HashSeeds
    /\ pc = "idle"
    /\ call = NONE
    /\ locals = NONE
    /\ ret = NONE
    /\ rerun = NONE

\* optimizer.deconstruct(prompt)
Deconstruct(prompt) ==
    /\ pc = "idle"
    /\ call' = [op |-> "deconstruct", prompt |-> prompt]
    /\ IF Raises[prompt]
       THEN /\ pc' = "raised"
            /\ ret' = "IndexError"
            /\ rerun' = [s \in HashSeeds |-> "IndexError"]
       ELSE /\ pc' = "returned"
            /\ ret' = Analysis(prompt, hashSeed)
            /\ rerun' = [s \in HashSeeds |-> Analysis(prompt, s)]
    /\ locals' = NONE
    /\ self' = self_after_call(self, NONE, NONE)
    /\ UNCHANGED hashSeed

\* optimizer.optimize(prompt, platform, mode)
Optimize(prompt, platform, mode) ==
    /\ pc = "idle"
    /\ call' = [op |-> "optimize", prompt |-> prompt,
                platform |-> platform, mode |-> mode]
    /\ IF Raises[prompt]
       THEN /\ pc' = "raised"
            /\ locals' = NONE
            /\ ret' = "IndexError"
            /\ rerun' = [s \in HashSeeds |-> "IndexError"]
            /\ self' = self
       ELSE \E l \in {optimize_locals(prompt, platform, mode, AutoModes[prompt],
                                      Analysis(prompt, hashSeed))} :
              \E result \in {optimize_result(l)} :
                /\ pc' = "returned"
                /\ locals' = l
                /\ ret' = result
                /\ rerun' = [s \in HashSeeds |->
                               IF Analysis(prompt, s) = l.analysis THEN result
                               ELSE optimize_result(
                                      optimize_locals(prompt, platform, mode,
                                                      AutoModes[prompt],
                                                      Analysis(prompt, s)))]
                /\ self' = self_after_call(self, l.platform_enum, l.mode_enum)
    /\ UNCHANGED hashSeed

\* optimizer.develop(prompt, analysis, platform, mode)
Develop(prompt, analysis, platform, mode) ==
    /\ pc = "idle"
    /\ call' = [op |-> "develop", prompt |-> prompt, analysis |-> analysis,
                platform |-> platform, mode |-> mode]
    /\ pc' = "returned"
    /\ locals' = [platform_enum |-> platform,
                  mode_enum |-> mode,
                  analysis |-> analysis,
                  techniques |-> _select_techniques(analysis, mode),
                  optimized_parts |-> develop_parts(prompt, analysis, platform, mode)]
    /\ ret' = develop(prompt, analysis, platform, mode)
    /\ rerun' = [s \in HashSeeds |-> develop(prompt, analysis, platform, mode)]
    /\ self' = self_after_call(self, NONE, NONE)
    /\ UNCHANGED hashSeed

\* optimizer.generate_clarifying_questions(analysis)
GenerateQuestions(analysis) ==
    /\ pc = "idle"
    /\ call' = [op |-> "generate_clarifying_questions", analysis |-> analysis]
    /\ pc' = "returned"
    /\ locals' = [analysis |-> analysis_after_questions(analysis),
                  triggered |-> triggered_questions(analysis)]
    /\ ret' = generate_clarifying_questions(analysis)
    /\ rerun' = [s \in HashSeeds |-> generate_clarifying_questions(analysis)]
    /\ self' = self_after_call(self, NONE, NONE)
    /\ UNCHANGED hashSeed

\* optimizer._parse_platform(platform)
ParsePlatform(platform) ==
    /\ pc = "idle"
    /\ call' = [op |-> "_parse_platform", platform |-> platform]
    /\ pc' = "returned"
    /\ locals' = NONE
    /\ ret' = _parse_platform(platform)
    /\ rerun' = [s \in HashSeeds |-> _parse_platform(platform)]
    /\ self' = self_after_call(self, NONE, NONE)
    /\ UNCHANGED hashSeed

\* optimizer._parse_mode(mode)
ParseMode(mode) ==
    /\ pc = "idle"
    /\ call' = [op |-> "_parse_mode", mode |-> mode]
    /\ pc' = "returned"
    /\ locals' = NONE
    /\ ret' = _parse_mode(mode)
    /\ rerun' = [s \in HashSeeds |-> _parse_mode(mode)]
    /\ self' = self_after_call(self, NONE, NONE)
    /\ UNCHANGED hashSeed

\* cli.parse_input(user_input)
ParseInput(user_input) ==
    /\ pc = "idle"
    /\ call' = [op |-> "parse_input", user_input |-> user_input]
    /\ pc' = "returned"
    /\ locals' = NONE
    /\ ret' = parse_input(user_input)
    /\ rerun' = [s \in HashSeeds |-> parse_input(user_input)]
    /\ self' = self_after_call(self, NONE, NONE)
    /\ UNCHANGED hashSeed

\* cli.interactive_mode(): the welcome message, then the loop asks for the
\* first line and waits in input().
StartInteractive ==
    /\ pc = "idle"
    /\ pc' = "waiting"
    /\ call' = [op |-> "interactive_mode", at |-> "welcome",
                line |-> NONE, interrupted |-> FALSE]
    /\ locals' = NONE
    /\ ret' = print_welcome \o PromptLines
    /\ rerun' = NONE
    /\ self' = self_after_call(self, NONE, NONE)
    /\ UNCHANGED hashSeed

\* The user enters a line: input() returns it and the pass of the loop runs
\* to its end: out of the loop by break, or on to the next pass, which asks
\* for a line and waits in input().
ReadLine ==
    /\ pc = "waiting"
    /\ \E line \in InteractiveInputs :
          \E turn \in {Turns[hashSeed][line]} :
             /\ pc' = IF turn.branch = "quit" THEN "ended" ELSE "waiting"
             /\ call' = [op |-> "interactive_mode", at |-> "line",
                         line |-> line, interrupted |-> FALSE]
             /\ locals' = turn
             /\ ret' = IF turn.branch = "quit" THEN turn.out
                       ELSE turn.out \o PromptLines
    /\ rerun' = NONE
    /\ self' = self_after_call(self, NONE, NONE)
    /\ UNCHANGED hashSeed

\* Ctrl-C when the pass for the line entered has printed k of its lines
\* (k = 0: in input() or before the first print): the handler prints and
\* breaks.
KeyboardInterrupt ==
    /\ pc = "waiting"
    /\ \E line \in InteractiveInputs :
          \E turn \in {Turns[hashSeed][line]} :
             \E k \in 0..(Len(turn.out) - 1) :
                /\ pc' = "ended"
                /\ call' = [op |-> "interactive_mode", at |-> "line",
                            line |-> line, interrupted |-> TRUE]
                /\ locals' = [turn EXCEPT
                                !.called = IF turn.called <= k THEN turn.called ELSE 0,
                                !.shown = "none",
                                !.questions = <<>>,
                                !.out = Take(turn.out, k)]
                /\ ret' = Take(turn.out, k) \o <<InterruptedGoodbye>>
    /\ rerun' = NONE
    /\ self' = self_after_call(self, NONE, NONE)
    /\ UNCHANGED hashSeed

\* The input stream ends: input() raises EOFError before a line was read, the
\* handler of Exception reports it, and the loop goes on to ask for a line
\* again.
EndOfInput ==
    /\ pc = "waiting"
    /\ pc' = "waiting"
    /\ call' = [op |-> "interactive_mode", at |-> "eof",
                line |-> NONE, interrupted |-> FALSE]
    /\ locals' = turn_record(NONE, "eof", <<NONE, NONE, NONE>>, NONE, NONE)
    /\ ret' = ErrorLines("EOF when reading a line") \o PromptLines
    /\ rerun' = NONE
    /\ self' = self_after_call(self, NONE, NONE)
    /\ UNCHANGED hashSeed

\* The caller takes the value (or the exception) and is ready to call again;
\* interactive_mode returns when its loop has ended.
Return ==
    /\ pc \in {"returned", "raised", "ended"}
    /\ pc' = "idle"
    /\ call' = NONE
    /\ locals' = NONE
    /\ ret' = NONE
    /\ rerun' = NONE
    /\ UNCHANGED <<self, hashSeed>>

\* A caller with no call in progress makes one: the quantifiers draw the
\* arguments.
DeconstructCall == pc = "idle" /\ \E prompt \in Prompts : Deconstruct(prompt)

OptimizeCall ==
    /\ pc = "idle"
    /\ \E prompt \in Prompts, platform \in PlatformArgs, mode \in ModeArgs :
          Optimize(prompt, platform, mode)

\* The Analysis passed in is any record, or one deconstruct returned in this
\* process.
QuestionsCall ==
    /\ pc = "idle"
    /\ \E analysis \in AnalysisRecords \cup Deconstructed[hashSeed] :
          GenerateQuestions(analysis)

ParsePlatformCall ==
    pc = "idle" /\ \E platform \in StringsOf(PlatformAtoms) : ParsePlatform(platform)

ParseModeCall == pc = "idle" /\ \E mode \in StringsOf(ModeAtoms) : ParseMode(mode)

DevelopCall ==
    /\ pc = "idle"
    /\ \E analysis \in DevelopAnalyses, platform \in AIPlatform, mode \in Mode :
          Develop("Write email", analysis, platform, mode)

ParseInputCall ==
    pc = "idle" /\ \E user_input \in CommandLines : ParseInput(user_input)

Next ==
    \/ DeconstructCall
    \/ OptimizeCall
    \/ DevelopCall
    \/ QuestionsCall
    \/ ParsePlatformCall
    \/ ParseModeCall
    \/ ParseInputCall
    \/ StartInteractive
    \/ ReadLine
    \/ KeyboardInterrupt
    \/ EndOfInput
    \/ Return

Spec == Init /\ [][Next]_vars

(***************************************************************************)
(* PROPERTIES                                                              *)
(***************************************************************************)
Returned(op) == pc = "returned" /\ call.op = op

\* C1: deconstruct returns, for every prompt, a complexity_score that is an
\* integer between 0 and 10 inclusive; a sum above 10 or below 0 is clamped.
C1_ScoreInRange ==
    Returned("deconstruct") =>
        /\ ret.complexity_score \in Int
        /\ ret.complexity_score >= 0
        /\ ret.complexity_score <= 10

\* A prompt of more than 50 tokens with two clarity issues and task type
\* Complex: 5 + 2 + 2 + 2 = 11, returned as 10.
C1_ClampedAtTen ==
    /\ Returned("deconstruct")
    /\ call.prompt = Filler \o Filler
    /\ Len(ret.clarity_issues) = 2
    /\ ret.task_type = COMPLEX
    /\ ret.complexity_score = 10

\* C2: generate_clarifying_questions returns at most three questions: the
\* first three of the triggered ones, which come in the order format,
\* audience, constraints, length; when all four are triggered the length
\* question is the one left out.
QuestionOrder == <<QFormat, QAudience, QConstraints, QLength>>
OrderOf(question) == CHOOSE k \in 1..Len(QuestionOrder) : QuestionOrder[k] = question
AllFourTriggered(analysis) ==
    /\ analysis.output_requirements = <<>>
    /\ analysis.task_type \in {CREATIVE, EDUCATIONAL}
    /\ analysis.complexity_score > 7
    /\ analysis.constraints = <<>>

C2_FirstThreeQuestions ==
    Returned("generate_clarifying_questions") =>
        /\ Len(ret) <= 3
        /\ Len(ret) = IF Len(locals.triggered) < 3 THEN Len(locals.triggered) ELSE 3
        /\ \A k \in 1..Len(ret) : ret[k] = locals.triggered[k]
        /\ \A i, j \in 1..Len(locals.triggered) :
              i < j => OrderOf(locals.triggered[i]) < OrderOf(locals.triggered[j])
        /\ AllFourTriggered(call.analysis) => ret = <<QFormat, QAudience, QConstraints>>

\* Four questions were triggered and the length question was dropped.
C2_LengthQuestionDropped ==
    /\ Returned("generate_clarifying_questions")
    /\ AllFourTriggered(call.analysis)
    /\ Len(locals.triggered) = 4
    /\ Len(ret) = 3
    /\ \A k \in 1..Len(ret) : ret[k] # QLength

\* C3: optimize and deconstruct are deterministic: the same arguments give an
\* identical result in every run, key_entities (order and choice of ten) and
\* everything derived from it included.  rerun[s] is the result of the same
\* call in an interpreter process whose string hash seed is s.
C3_SameResultInEveryRun ==
    (Returned("deconstruct") \/ Returned("optimize")) =>
        \A s \in HashSeeds : rerun[s] = ret

\* What the properties below read off a prompt: its token count, the number
\* of pieces between full stops, and which keyword lists have a member
\* occurring in the lower-cased prompt as a substring.
Occurs(prompt, keywords) == ContainsAny(Lower(prompt), keywords)
PromptFacts ==
    [prompt \in Prompts |->
        [tokens |-> Len(Split(prompt)),
         pieces |-> Len(SplitOn(prompt, ".")),
         creative |-> Occurs(prompt, creative_keywords),
         technical |-> Occurs(prompt, technical_keywords),
         analytical |-> Occurs(prompt, analytical_keywords),
         educational |-> Occurs(prompt, educational_keywords),
         story |-> Occurs(prompt, <<"story">>),
         code |-> Occurs(prompt, <<"code">>),
         simple_word |-> Occurs(prompt, simple_indicators),
         complex_word |-> Occurs(prompt, complex_indicators),
         verb |-> \E k \in 1..Len(ActionPatterns) :
                     HasWholeWord(Lower(prompt), ActionPatterns[k])]] @@ <<>>

\* C4: the task type is the first of Creative, Technical, Analytical,
\* Educational one of whose keywords occurs in the prompt (substring, any
\* case); with no keyword it is Complex when the prompt has more than 30
\* tokens or more than 2 pieces between '.', else Simple.  A prompt with both
\* "story" and "code" is Creative.
C4_TaskTypePriority ==
    Returned("deconstruct") =>
        LET f == PromptFacts[call.prompt]
            type == ret.task_type
        IN  /\ f.creative => type = CREATIVE
            /\ (~f.creative /\ f.technical) => type = TECHNICAL
            /\ (~f.creative /\ ~f.technical /\ f.analytical) => type = ANALYTICAL
            /\ (~f.creative /\ ~f.technical /\ ~f.analytical /\ f.educational)
                  => type = EDUCATIONAL
            /\ (~f.creative /\ ~f.technical /\ ~f.analytical /\ ~f.educational)
                  => type = (IF f.tokens > 30 \/ f.pieces > 2 THEN COMPLEX ELSE SIMPLE)
            /\ (f.story /\ f.code) => type = CREATIVE

\* A prompt with "story" and "code" in it came back Creative.
C4_StoryBeatsCode ==
    /\ Returned("deconstruct")
    /\ PromptFacts[call.prompt].story
    /\ PromptFacts[call.prompt].code
    /\ ret.task_type = CREATIVE

\* C5 as stated: the prompt "Help" gets a complexity_score of at least 5 and
\* at most 10.
C5_HelpAtLeastFive ==
    (Returned("deconstruct") /\ call.prompt = "Help") =>
        (ret.complexity_score >= 5 /\ ret.complexity_score <= 10)

\* C5 amended: the prompt "Help" (one token, task type Simple, the two clarity
\* issues "very brief" and "format not specified") gets the complexity_score
\* 5 - 2 + 2 - 2 = 3.
C5_HelpScoresThree ==
    (Returned("deconstruct") /\ call.prompt = "Help") =>
        /\ ret.task_type = SIMPLE
        /\ ret.clarity_issues = <<IssueBrief, IssueFormat>>
        /\ ret.complexity_score = 3

\* deconstruct("Help") has returned.
C5_HelpAnalysed ==
    /\ Returned("deconstruct")
    /\ call.prompt = "Help"
    /\ ret.complexity_score \in 0..10

\* C6: in Basic mode the optimized prompt begins with the role sentence of
\* the task type, has a Task block built on the core intent, and has no
\* Context, Output Requirements or Constraints block.  For "Write email" on
\* platform "other" the role is the Simple persona and the Task block holds
\* "email".
SimplePersona ==
    "You are a helpful assistant focused on providing clear, concise responses."
DetailHeaders == {ContextHeader, OutputHeader, ConstraintsHeader}
C6_BasicStructure ==
    (Returned("optimize") /\ locals.mode_enum = BASIC) =>
        LET parts == locals.optimized_parts
            role == _assign_role(locals.analysis.task_type)
        IN  /\ parts[1] = role
            /\ StartsWith(ret.optimized_prompt, role \o "\n\n")
            /\ StartsWith(parts[2], TaskHeader \o locals.analysis.core_intent)
            /\ \A k \in 1..Len(parts) : \A h \in DetailHeaders : ~StartsWith(parts[k], h)
            /\ (call.prompt = "Write email" /\ call.platform = "other") =>
                  /\ parts[1] = SimplePersona
                  /\ Contains(parts[2], "email")
                  /\ ret.optimized_prompt = Join("\n\n", parts)

\* optimize("Write email", "other", "basic") has returned.
C6_WriteEmailBasic ==
    /\ Returned("optimize")
    /\ call.prompt = "Write email"
    /\ call.platform = "other"
    /\ call.mode = "basic"
    /\ locals.mode_enum = BASIC
    /\ Len(locals.optimized_parts) = 2

\* C7: with mode "auto" the pipeline runs in the mode given by these rules in
\* order, which read the prompt only: Basic if it has fewer than 15 tokens and
\* contains write/create/make (whatever else it contains); otherwise Detail
\* if it has more than 25 tokens or contains one of professional, business,
\* technical, comprehensive, detailed; otherwise Basic.
C7_AutoModeRules ==
    (Returned("optimize") /\ call.mode = "auto") =>
        LET f == PromptFacts[call.prompt]
            resolved == IF f.tokens < 15 /\ f.simple_word THEN BASIC
                        ELSE IF f.tokens > 25 \/ f.complex_word THEN DETAIL
                        ELSE BASIC
        IN  /\ locals.mode_enum = resolved
            /\ InSeq("output_specs", ret.techniques_applied) <=> resolved = DETAIL
            /\ ret.pro_tip = _generate_pro_tip(locals.analysis, resolved)

\* A short prompt with both "write" and "professional" ran in Basic mode.
C7_ShortWriteProfessional ==
    /\ Returned("optimize")
    /\ call.mode = "auto"
    /\ PromptFacts[call.prompt].tokens < 15
    /\ PromptFacts[call.prompt].simple_word
    /\ PromptFacts[call.prompt].complex_word
    /\ locals.mode_enum = BASIC

\* C8: platform and mode strings are matched as substrings of the lower-cased
\* argument and every string parses: "gpt" gives chatgpt, else "claude" gives
\* claude, else "gemini" gives gemini, else other; "detail" gives detail, else
\* basic.  "GPT-4" is chatgpt and "Claude Opus" is claude.
PlatformOf(platform) ==
    LET lowered == Lower(platform)
    IN  IF Contains(lowered, "gpt") THEN CHATGPT
        ELSE IF Contains(lowered, "claude") THEN CLAUDE
        ELSE IF Contains(lowered, "gemini") THEN GEMINI
        ELSE PLATFORM_OTHER
C8_ParsingBySubstring ==
    /\ pc = "raised" => call.op \notin {"_parse_platform", "_parse_mode"}
    /\ Returned("_parse_platform") =>
          /\ ret = PlatformOf(call.platform)
          /\ call.platform = "GPT-4" => ret = CHATGPT
          /\ call.platform = "Claude Opus" => ret = CLAUDE
    /\ Returned("_parse_mode") =>
          ret = (IF Contains(Lower(call.mode), "detail") THEN DETAIL ELSE BASIC)
    /\ Returned("optimize") =>
          /\ locals.platform_enum = PlatformOf(call.platform)
          /\ call.mode # "auto" =>
                locals.mode_enum = (IF Contains(Lower(call.mode), "detail")
                                    THEN DETAIL ELSE BASIC)

\* "GPT-4" was parsed, and came back as chatgpt.
C8_GPT4IsChatGPT ==
    /\ Returned("_parse_platform")
    /\ call.platform = "GPT-4"
    /\ ret = CHATGPT

\* C9: the pipeline is total on strings: optimize returns a Result and
\* deconstruct an Analysis for every prompt (the empty string, white space
\* only and punctuation only included), platform and mode; no call raises.
ResultFields == {"optimized_prompt", "improvements", "techniques_applied", "pro_tip"}
AnalysisFields ==
    {"core_intent", "key_entities", "context_level", "output_requirements",
     "constraints", "clarity_issues", "task_type", "complexity_score"}
C9_NoCallRaises ==
    /\ pc # "raised"
    /\ Returned("optimize") => DOMAIN ret = ResultFields
    /\ Returned("deconstruct") => DOMAIN ret = AnalysisFields

\* optimize has returned for a prompt with no word in it: the empty string,
\* white space only or full stops only.
C9_BlankPromptOptimized ==
    /\ Returned("optimize")
    /\ call.prompt \in {"", "\n", "\n\n", ".", ".."}
    /\ DOMAIN ret = ResultFields
    /\ locals.analysis.key_entities = <<>>

C11_TwoOrThreeQuestions ==
    (Returned("generate_clarifying_questions")
        /\ call.analysis \in Deconstructed[hashSeed]) =>
        Len(ret) \in {2, 3}

\* C12: for every command line "[DETAIL|BASIC] using [Platform] - prompt
\* text", with the mode keyword, the word "using" and the platform name in
\* any letter case, parse_input returns the named platform (chatgpt for
\* ChatGPT and for GPT), the named mode in lower case and, as the prompt,
\* exactly the text after the dash; "DETAIL using ChatGPT - Write me a
\* marketing email" gives ("chatgpt", "detail", "Write me a marketing email").
NamedPlatform(word) ==
    IF Lower(word) \in {"chatgpt", "gpt"} THEN "chatgpt" ELSE Lower(word)
C12_CommandLineParsed ==
    Returned("parse_input") =>
        \A m \in ModeWords, u \in UsingWords, p \in PlatformWords, t \in PromptTexts :
            call.user_input = CommandLine(m, u, p, t) =>
                ret = <<NamedPlatform(p), Lower(m), t>>

\* C13: when none of the five verb patterns matches, core_intent is the text
\* before the first period if the prompt has a period, and otherwise the
\* first 100 characters of the prompt, so that a period-free prompt of more
\* than 100 characters gives an intent of exactly 100 characters.  (White
\* space at the two ends is not counted against the statement.)
FirstHundred(s) == SubSeq(s, 1, IF Len(s) < 100 THEN Len(s) ELSE 100)
C13_IntentFallback ==
    (Returned("deconstruct") /\ ~PromptFacts[call.prompt].verb) =>
        LET prompt == call.prompt
            periods == {i \in 1..Len(prompt) : Char(prompt, i) = "."}
        IN  IF periods # {}
            THEN ret.core_intent = Strip(SubSeq(prompt, 1, Min(periods) - 1))
            ELSE /\ ret.core_intent = Strip(FirstHundred(prompt))
                 /\ Len(prompt) > 100 => Len(ret.core_intent) = 100

\* C14: complexity_score = clamp(5 + L + I + T, 0, 10), with L = -2 below 10
\* tokens, +2 above 50, else 0; I the number of clarity issues found (0 to
\* 4); T = +2 for Technical and Complex, -2 for Simple, 0 for Creative,
\* Analytical and Educational.
C14_ComplexityFormula ==
    Returned("deconstruct") =>
        LET tokens == PromptFacts[call.prompt].tokens
            L == IF tokens < 10 THEN -2 ELSE IF tokens > 50 THEN 2 ELSE 0
            I == Len(ret.clarity_issues)
            T == CASE ret.task_type \in {TECHNICAL, COMPLEX} -> 2
                   [] ret.task_type = SIMPLE -> -2
                   [] ret.task_type \in {CREATIVE, ANALYTICAL, EDUCATIONAL} -> 0
            sum == 5 + L + I + T
        IN  /\ I \in 0..4
            /\ ret.complexity_score = (IF sum > 10 THEN 10 ELSE IF sum < 0 THEN 0 ELSE sum)

\* A short Technical prompt with three clarity issues: 5 - 2 + 3 + 2 = 8.
C14_ShortTechnicalEight ==
    /\ Returned("deconstruct")
    /\ PromptFacts[call.prompt].tokens < 10
    /\ Len(ret.clarity_issues) = 3
    /\ ret.task_type = TECHNICAL
    /\ ret.complexity_score = 8

\* C15: the improvements list of optimize is, in this order, "Fixed N clarity
\* issues" iff N > 0 clarity issues, "Enhanced specificity and detail" iff
\* fewer than 2 key entities, "Added clear output specifications" iff no
\* output requirement, "Layered additional context" iff the context level is
\* Low, and always last "Optimized for {task_type} tasks"; the diagnosis item
\* "Break down into steps or add constraints" adds no entry.
CountText == <<"1", "2", "3", "4">>
C15_ImprovementsList ==
    Returned("optimize") =>
        LET analysis == locals.analysis
            N == Len(analysis.clarity_issues)
            expected ==
                (IF N > 0 THEN <<"Fixed " \o CountText[N] \o " clarity issues">> ELSE <<>>)
                \o (IF Len(analysis.key_entities) < 2
                    THEN <<"Enhanced specificity and detail">> ELSE <<>>)
                \o (IF analysis.output_requirements = <<>>
                    THEN <<"Added clear output specifications">> ELSE <<>>)
                \o (IF analysis.context_level = "Low"
                    THEN <<"Layered additional context">> ELSE <<>>)
                \o <<"Optimized for " \o analysis.task_type \o " tasks">>
        IN  /\ ret.improvements = expected
            /\ Len(ret.improvements) >= 1
            /\ Len(ret.improvements) <= 5

\* optimize has returned for a prompt with exactly one key entity whose
\* diagnosis holds "Break down into steps or add constraints": all five
\* entries are there and no sixth.
C15_OneEntityFiveEntries ==
    /\ Returned("optimize")
    /\ Len(locals.analysis.key_entities) = 1
    /\ InSeq(NeedSteps, locals.diagnosis.improvements_needed)
    /\ Len(ret.improvements) = 5
    /\ ret.improvements[2] = "Enhanced specificity and detail"

\* The calls that assemble a prompt, and the prompt they return.
Developed == Returned("optimize") \/ Returned("develop")
DevelopedPrompt == IF call.op = "optimize" THEN ret.optimized_prompt ELSE ret

\* C16: the techniques selected are role_assignment and task_decomposition
\* always, context_layering and output_specs iff the mode is Detail,
\* chain_of_thought iff complexity_score > 7, multi_perspective iff Creative,
\* constraint_based iff Technical, few_shot iff Educational, and nothing
\* else; techniques_applied of the Result is that same list.
AllTechniques ==
    {"role_assignment", "task_decomposition", "context_layering", "output_specs",
     "chain_of_thought", "multi_perspective", "constraint_based", "few_shot"}
C16_TechniquesSelected ==
    Developed =>
        LET techniques == locals.techniques
            analysis == locals.analysis
            has(t) == InSeq(t, techniques)
        IN  /\ has("role_assignment") /\ has("task_decomposition")
            /\ has("context_layering") <=> locals.mode_enum = DETAIL
            /\ has("output_specs") <=> locals.mode_enum = DETAIL
            /\ has("chain_of_thought") <=> analysis.complexity_score > 7
            /\ has("multi_perspective") <=> analysis.task_type = CREATIVE
            /\ has("constraint_based") <=> analysis.task_type = TECHNICAL
            /\ has("few_shot") <=> analysis.task_type = EDUCATIONAL
            /\ \A k \in 1..Len(techniques) : techniques[k] \in AllTechniques
            /\ \A i, j \in 1..Len(techniques) : techniques[i] = techniques[j] => i = j
            /\ call.op = "optimize" => ret.techniques_applied = techniques

\* optimize has returned in Detail mode for a Creative prompt of
\* complexity_score 7: five techniques, chain_of_thought not among them.
C16_CreativeAtSeven ==
    /\ Returned("optimize")
    /\ locals.mode_enum = DETAIL
    /\ locals.analysis.task_type = CREATIVE
    /\ locals.analysis.complexity_score = 7
    /\ ret.techniques_applied =
          <<"role_assignment", "task_decomposition", "context_layering",
            "output_specs", "multi_perspective">>

\* C17: step 5 of develop emits at most one technique block, by priority:
\* the multi-perspective sentence for Creative, else the Technical
\* Requirements block for Technical, else the examples sentence for
\* Educational, else the step-by-step sentence when complexity_score > 7.
\* So for Creative, Technical and Educational with complexity_score > 7 the
\* step-by-step sentence is absent although chain_of_thought is listed, and
\* for Analytical, Complex and Simple with complexity_score <= 7 nothing is
\* emitted at this step.
StepByStep == "Think through this step-by-step, showing your reasoning."
TechnicalBlock ==
    "\n**Technical Requirements:**\n- Follow best practices and coding standards"
    \o "\n- Consider edge cases and error handling"
    \o "\n- Optimize for performance and maintainability"
StepFiveBlocks ==
    {"\nConsider multiple perspectives and creative angles.",
     TechnicalBlock,
     "\nProvide clear examples and step-by-step explanations.",
     "\n" \o StepByStep}
C17_OneStepFiveBlock ==
    Developed =>
        LET parts == locals.optimized_parts
            analysis == locals.analysis
            type == analysis.task_type
            emitted == {k \in 1..Len(parts) : parts[k] \in StepFiveBlocks}
            block == parts[CHOOSE k \in emitted : TRUE]
        IN  /\ Cardinality(emitted) <= 1
            /\ type = CREATIVE =>
                  emitted # {} /\ block = "\nConsider multiple perspectives and creative angles."
            /\ type = TECHNICAL => emitted # {} /\ block = TechnicalBlock
            /\ type = EDUCATIONAL =>
                  emitted # {} /\ block = "\nProvide clear examples and step-by-step explanations."
            /\ (type \in {ANALYTICAL, COMPLEX, SIMPLE} /\ analysis.complexity_score > 7) =>
                  emitted # {} /\ block = "\n" \o StepByStep
            /\ (type \in {ANALYTICAL, COMPLEX, SIMPLE} /\ analysis.complexity_score <= 7) =>
                  emitted = {}
            /\ (type \in {CREATIVE, TECHNICAL, EDUCATIONAL} /\ analysis.complexity_score > 7) =>
                  /\ InSeq("chain_of_thought", locals.techniques)
                  /\ ~Contains(DevelopedPrompt, StepByStep)

\* optimize has returned for a Technical prompt of complexity_score above 7:
\* chain_of_thought is listed and the Technical Requirements block is the
\* step-5 block.
C17_TechnicalAboveSeven ==
    /\ Returned("optimize")
    /\ locals.analysis.task_type = TECHNICAL
    /\ locals.analysis.complexity_score > 7
    /\ InSeq("chain_of_thought", ret.techniques_applied)
    /\ InSeq(TechnicalBlock, locals.optimized_parts)
    /\ ~InSeq("\n" \o StepByStep, locals.optimized_parts)

\* C18: in Detail mode the prompt is the parts below joined by blank lines,
\* in this order: the role sentence; the Context block iff context_level is
\* not High; the Task block; the Output Requirements block, always, with one
\* bullet per extracted requirement or the two default bullets of the task
\* type; at most one step-5 block; the Constraints header and one bullet per
\* constraint, in the original order with duplicates kept, iff there is a
\* constraint.  (The platform suffix of step 7 comes after these.)
DefaultBullets(type) ==
    IF type = TECHNICAL THEN "\n- Clear, well-commented code\n- Explanation of approach"
    ELSE IF type = CREATIVE
    THEN "\n- Original and engaging content\n- Appropriate tone and style"
    ELSE "\n- Clear and well-structured response\n- Specific and actionable information"
ApproachSentence ==
    "\n\n**Approach:** Break this down systematically and explain your reasoning."
EncouragementSentence ==
    "\n\nFeel free to explore creative angles and multiple possibilities."
SuffixFor(platform, analysis) ==
    IF platform = CLAUDE /\ analysis.complexity_score > 7 THEN ApproachSentence
    ELSE IF platform = GEMINI /\ analysis.task_type = CREATIVE THEN EncouragementSentence
    ELSE ""
C19_PlatformSuffixOnly ==
    /\ Returned("develop") =>
          ret = develop(call.prompt, call.analysis, PLATFORM_OTHER, call.mode)
                \o SuffixFor(call.platform, call.analysis)
    /\ Returned("optimize") =>
          LET for_other ==
                  optimize_result(optimize_locals(call.prompt, "other", call.mode,
                                                  AutoModes[call.prompt], locals.analysis))
          IN  /\ ret.optimized_prompt =
                    for_other.optimized_prompt
                    \o SuffixFor(locals.platform_enum, locals.analysis)
              /\ ret.improvements = for_other.improvements
              /\ ret.techniques_applied = for_other.techniques_applied
              /\ ret.pro_tip = for_other.pro_tip

\* optimize has returned for Claude with a complexity_score above 7: the
\* prompt ends with the Approach sentence.
C19_ClaudeApproachAppended ==
    /\ Returned("optimize")
    /\ call.platform = "Claude Opus"
    /\ locals.analysis.complexity_score > 7
    /\ LET prompt == ret.optimized_prompt
       IN  SubSeq(prompt, Len(prompt) - Len(ApproachSentence) + 1, Len(prompt))
              = ApproachSentence

\* C20: pro_tip is always a string: the iteration tip whenever
\* complexity_score > 7, whatever the task type; otherwise the tip of the
\* task type for Creative, Technical, Analytical, Educational and Complex and
\* the generic "Be specific..." tip for Simple; the mode does not enter.
TipFor(analysis) ==
    IF analysis.complexity_score > 7
    THEN "For complex requests, consider iterating: start with a draft and refine based on the output."
    ELSE CASE analysis.task_type = CREATIVE ->
                "For creative tasks, consider asking for multiple variations to find the best fit."
           [] analysis.task_type = TECHNICAL ->
                "When asking for code, specify your programming language, version, and any frameworks upfront."
           [] analysis.task_type = ANALYTICAL ->
                "For analysis tasks, provide sample data or clear criteria for evaluation."
           [] analysis.task_type = EDUCATIONAL ->
                "Learning works best when you ask follow-up questions and request examples."
           [] analysis.task_type = COMPLEX ->
                "Break complex tasks into smaller subtasks for better results."
           [] analysis.task_type = SIMPLE ->
                "Be specific about what success looks like for your request."
C20_ProTip ==
    Returned("optimize") =>
        /\ ret.pro_tip # NONE
        /\ Len(ret.pro_tip) > 0
        /\ ret.pro_tip = TipFor(locals.analysis)

\* optimize has returned in Detail mode for a Technical prompt of
\* complexity_score above 7 with the iteration tip.
C20_IterationTipForTechnical ==
    /\ Returned("optimize")
    /\ locals.mode_enum = DETAIL
    /\ locals.analysis.task_type = TECHNICAL
    /\ locals.analysis.complexity_score > 7
    /\ ret.pro_tip = IterationTip

\* A pass of the interactive loop has run to its end, or was cut by Ctrl-C.
TurnDone == pc \in {"waiting", "ended"} /\ call.at # "welcome"

\* The pass printed a result: it was not cut, and it took the path through
\* optimize to one of the two result formats.
ResultShown == TurnDone /\ ~call.interrupted /\ locals.branch = "result"

\* s ends with suffix.
EndsWith(s, suffix) ==
    /\ Len(suffix) <= Len(s)
    /\ SubSeq(s, Len(s) - Len(suffix) + 1, Len(s)) = suffix

\* C21: every prompt classified as Simple has complexity_score at most 6: it
\* has at most 30 tokens, and the "Very brief" issue comes only together with
\* the -2 of a prompt below 10 tokens.  So for a Simple prompt optimize never
\* selects chain_of_thought, never appends the Claude Approach sentence and
\* never gives the iteration pro tip; generate_clarifying_questions never asks
\* the constraints question about it; and the interactive loop shows it in the
\* complex result format only when the mode is detail, in the simple format
\* otherwise.
C21_SimpleAtMostSix ==
    /\ Returned("deconstruct") /\ ret.task_type = SIMPLE =>
          /\ ret.complexity_score <= 6
          /\ PromptFacts[call.prompt].tokens <= 30
          /\ InSeq(IssueBrief, ret.clarity_issues) =>
                PromptFacts[call.prompt].tokens < ShortWords
    /\ Returned("optimize") /\ locals.analysis.task_type = SIMPLE =>
          /\ locals.analysis.complexity_score <= 6
          /\ ~InSeq("chain_of_thought", ret.techniques_applied)
          /\ ~EndsWith(ret.optimized_prompt, ApproachSentence)
          /\ ret.pro_tip # IterationTip
    /\ /\ Returned("generate_clarifying_questions")
       /\ call.analysis \in Deconstructed[hashSeed]
       /\ call.analysis.task_type = SIMPLE
       => ~InSeq(QConstraints, ret)
    /\ ResultShown /\ locals.analysis.task_type = SIMPLE =>
          /\ locals.analysis.complexity_score <= 6
          /\ locals.shown = "complex" <=> locals.mode = "detail"
          /\ InSeq("KEY IMPROVEMENTS:", ret) <=> locals.mode = "detail"
          /\ InSeq("WHAT CHANGED:", ret) <=> locals.mode # "detail"

\* deconstruct has returned a Simple prompt at the top of the range: ten or
\* more tokens, three clarity issues, 5 + 0 + 3 - 2 = 6.
C21_SimpleScoresSix ==
    /\ Returned("deconstruct")
    /\ ret.task_type = SIMPLE
    /\ PromptFacts[call.prompt].tokens >= ShortWords
    /\ Len(ret.clarity_issues) = 3
    /\ ret.complexity_score = 6

\* The position of the first line of lines that is line, or 0.
IndexOf(line, lines) ==
    IF InSeq(line, lines)
    THEN CHOOSE i \in 1..Len(lines) :
            lines[i] = line /\ \A j \in 1..(i - 1) : lines[j] # line
    ELSE 0

====
